---- MODULE Spec2Model ----
(***************************************************************************)
(* Weekly payroll calculator (src/app.py): name reconciliation by fuzzy    *)
(* matching, deal aggregation, pay rules and report assembly.              *)
(*                                                                         *)
(* Strings are sequences of ASCII codes, so that normalisation, the        *)
(* matcher's pre-processing, tokenisation and the similarity score are     *)
(* computed character by character.  The similarity score is the one       *)
(* process.extractOne uses by default (fuzz.WRatio over utils.full_process *)
(* with the pure-python difflib.SequenceMatcher).                          *)
(***************************************************************************)
EXTENDS Integers, Sequences, FiniteSets, TLC

(***************************************************************************)
(* Characters and strings                                                  *)
(***************************************************************************)
IsUpper(c) == c \in 65..90
IsLower(c) == c \in 97..122
IsDigit(c) == c \in 48..57
IsLetter(c) == IsUpper(c) \/ IsLower(c)
IsSpace(c) == c \in {9, 10, 13, 32}
\* \W of the regular expression: everything but letters, digits and "_"
IsWordChar(c) == IsLetter(c) \/ IsDigit(c) \/ c = 95

ToLower(c) == IF IsUpper(c) THEN c + 32 ELSE c
ToUpper(c) == IF IsLower(c) THEN c - 32 ELSE c

Min2(a, b) == IF a <= b THEN a ELSE b
Max2(a, b) == IF a >= b THEN a ELSE b

\* s[lo..hi) with 0-based offsets, as a python slice s[lo:hi]
Slice(s, lo, hi) ==
    LET h == Min2(hi, Len(s))
    IN  IF lo >= h THEN << >> ELSE [i \in 1..(h - lo) |-> s[lo + i]]

\* str.lower()
Lower(s) == [i \in 1..Len(s) |-> ToLower(s[i])]

\* str.strip(): whitespace removed at both ends
Strip(s) ==
    LET keep == {i \in 1..Len(s) : ~IsSpace(s[i])}
    IN  IF keep = {} THEN << >>
        ELSE LET lo == CHOOSE i \in keep : \A j \in keep : i <= j
                 hi == CHOOSE i \in keep : \A j \in keep : i >= j
             IN  [i \in 1..(hi - lo + 1) |-> s[lo + i - 1]]

\* str.title(): a letter is upper-cased when it starts the string or follows
\* a character that is not a letter, lower-cased otherwise
Title(s) ==
    [i \in 1..Len(s) |->
        IF ~IsLetter(s[i]) THEN s[i]
        ELSE IF i = 1 \/ ~IsLetter(s[i - 1]) THEN ToUpper(s[i]) ELSE ToLower(s[i])]

\* .astype(str).str.strip().str.title() of a name column
NormalizeName(raw) == Title(Strip(raw))

\* lexicographic order of strings (python's < on str)
RECURSIVE StrLess(_, _)
StrLess(a, b) ==
    IF b = << >> THEN FALSE
    ELSE IF a = << >> THEN TRUE
    ELSE IF a[1] # b[1] THEN a[1] < b[1]
    ELSE StrLess(Tail(a), Tail(b))

\* str.split(): the maximal runs of non-whitespace characters, in order
RECURSIVE SplitWs(_)
SplitWs(s) ==
    IF s = << >> THEN << >>
    ELSE IF IsSpace(s[1]) THEN SplitWs(Tail(s))
    ELSE LET stops == {i \in 1..Len(s) : IsSpace(s[i])}
             n == IF stops = {} THEN Len(s) + 1
                  ELSE CHOOSE i \in stops : \A j \in stops : i <= j
         IN  <<Slice(s, 0, n - 1)>> \o SplitWs(Slice(s, n - 1, Len(s)))

\* str.split(sep): the fields between occurrences of sep, empty ones kept
RECURSIVE SplitOn(_, _)
SplitOn(s, sep) ==
    LET stops == {i \in 1..Len(s) : s[i] = sep}
    IN  IF stops = {} THEN <<s>>
        ELSE LET n == CHOOSE i \in stops : \A j \in stops : i <= j
             IN  <<Slice(s, 0, n - 1)>> \o SplitOn(Slice(s, n, Len(s)), sep)

\* sorted(tokens): ascending, by repeatedly taking out a least element
RECURSIVE SortedTokens(_)
SortedTokens(ts) ==
    IF ts = << >> THEN << >>
    ELSE LET k == CHOOSE i \in 1..Len(ts) :
                    \A j \in 1..Len(ts) : ~StrLess(ts[j], ts[i])
             rest == [i \in 1..(Len(ts) - 1) |-> IF i < k THEN ts[i] ELSE ts[i + 1]]
         IN  <<ts[k]>> \o SortedTokens(rest)

\* " ".join(tokens)
RECURSIVE JoinSp(_)
JoinSp(ts) ==
    IF ts = << >> THEN << >>
    ELSE IF Len(ts) = 1 THEN ts[1]
    ELSE ts[1] \o <<32>> \o JoinSp(Tail(ts))

\* the distinct elements of a sequence, in first-occurrence order
RECURSIVE Unique(_)
Unique(s) ==
    IF s = << >> THEN << >>
    ELSE LET r == Unique(SubSeq(s, 1, Len(s) - 1))
             x == s[Len(s)]
         IN  IF \E i \in 1..Len(r) : r[i] = x THEN r ELSE Append(r, x)

\* int(round(num / den)) for num >= 0, den > 0: python 3 rounds halves to even
RoundDiv(num, den) ==
    LET q == num \div den
        r == num % den
    IN  IF 2 * r < den THEN q
        ELSE IF 2 * r > den THEN q + 1
        ELSE IF q % 2 = 0 THEN q ELSE q + 1

(***************************************************************************)
(* difflib.SequenceMatcher(None, a, b), as used by fuzzywuzzy.fuzz         *)
(***************************************************************************)
\* find_longest_match(alo, ahi, blo, bhi): the longest block a[i:i+k] =
\* b[j:j+k] inside the two windows; of the longest ones that which starts
\* earliest in a, and of those that which starts earliest in b; <<alo, blo, 0>>
\* when no character matches.  Offsets are 0-based.
RECURSIVE RunLength(_, _, _, _, _, _)
RunLength(a, b, i, j, ahi, bhi) ==
    IF i < ahi /\ j < bhi /\ a[i + 1] = b[j + 1]
    THEN 1 + RunLength(a, b, i + 1, j + 1, ahi, bhi)
    ELSE 0

FindLongestMatch(a, b, alo, ahi, blo, bhi) ==
    LET blocks == {<<p[1], p[2], RunLength(a, b, p[1], p[2], ahi, bhi)>> :
                      p \in {q \in (alo..(ahi - 1)) \X (blo..(bhi - 1)) :
                                a[q[1] + 1] = b[q[2] + 1]}}
        Better(x, y) == \/ x[3] > y[3]
                        \/ x[3] = y[3] /\ x[1] < y[1]
                        \/ x[3] = y[3] /\ x[1] = y[1] /\ x[2] <= y[2]
    IN  IF blocks = {} THEN <<alo, blo, 0>>
        ELSE CHOOSE x \in blocks : \A y \in blocks : Better(x, y)

\* get_matching_blocks(): the longest match of the window, then recursively
\* the matching blocks to its left and to its right
RECURSIVE MatchingBlocksIn(_, _, _, _, _, _)
MatchingBlocksIn(a, b, alo, ahi, blo, bhi) ==
    IF alo >= ahi \/ blo >= bhi THEN {}
    ELSE LET m == FindLongestMatch(a, b, alo, ahi, blo, bhi)
         IN  IF m[3] = 0 THEN {}
             ELSE {m} \cup MatchingBlocksIn(a, b, alo, m[1], blo, m[2])
                      \cup MatchingBlocksIn(a, b, m[1] + m[3], ahi, m[2] + m[3], bhi)

\* the blocks and the closing dummy block (len(a), len(b), 0)
MatchingBlocks(a, b) ==
    MatchingBlocksIn(a, b, 0, Len(a), 0, Len(b)) \cup {<<Len(a), Len(b), 0>>}

RECURSIVE SumSizes(_)
SumSizes(blocks) ==
    IF blocks = {} THEN 0
    ELSE LET x == CHOOSE y \in blocks : TRUE
         IN  x[3] + SumSizes(blocks \ {x})

\* the number M of matched characters: ratio() is 2.0 * M / (len(a) + len(b))
Matches(a, b) == SumSizes(MatchingBlocks(a, b))

(***************************************************************************)
(* fuzzywuzzy: utils.full_process, fuzz.ratio, fuzz.partial_ratio, the     *)
(* token ratios, fuzz.WRatio and process.extractOne                        *)
(***************************************************************************)
\* utils.full_process: non-word characters become blanks, lower case, strip
full_process(s) ==
    Strip(Lower([i \in 1..Len(s) |-> IF IsWordChar(s[i]) THEN s[i] ELSE 32]))

\* fuzz.ratio: 100 for equal strings, 0 when one is empty, else
\* intr(100 * 2M/T)
ratio(s1, s2) ==
    IF s1 = s2 THEN 100
    ELSE IF Len(s1) = 0 \/ Len(s2) = 0 THEN 0
    ELSE RoundDiv(200 * Matches(s1, s2), Len(s1) + Len(s2))

\* fuzz.partial_ratio: the best ratio of the shorter string against the
\* windows of the longer one that the matching blocks line up
partial_ratio(s1, s2) ==
    IF s1 = s2 THEN 100
    ELSE IF Len(s1) = 0 \/ Len(s2) = 0 THEN 0
    ELSE LET shorter == IF Len(s1) <= Len(s2) THEN s1 ELSE s2
             longer == IF Len(s1) <= Len(s2) THEN s2 ELSE s1
             starts == {IF b[2] - b[1] > 0 THEN b[2] - b[1] ELSE 0 :
                           b \in MatchingBlocks(shorter, longer)}
             Sub(st) == Slice(longer, st, st + Len(shorter))
             \* 2M/T of each window, as the pair <<2M, T>>
             rs == {<<2 * Matches(shorter, Sub(st)), Len(shorter) + Len(Sub(st))>> :
                       st \in starts}
             best == CHOOSE x \in rs : \A y \in rs : x[1] * y[2] >= y[1] * x[2]
         IN  IF \E x \in rs : 1000 * x[1] > 995 * x[2] THEN 100
             ELSE RoundDiv(100 * best[1], best[2])

\* fuzz._process_and_sort (full_process=False): the tokens sorted and joined
ProcessAndSort(s) == Strip(JoinSp(SortedTokens(SplitWs(s))))

\* fuzz._token_sort
TokenSort(s1, s2, partial) ==
    IF partial THEN partial_ratio(ProcessAndSort(s1), ProcessAndSort(s2))
    ELSE ratio(ProcessAndSort(s1), ProcessAndSort(s2))

\* fuzz._token_set (full_process=False)
TokenSet(p1, p2, partial) ==
    IF p1 = p2 THEN 100
    ELSE IF Len(p1) = 0 \/ Len(p2) = 0 THEN 0
    ELSE LET t1 == Unique(SplitWs(p1))
             t2 == Unique(SplitWs(p2))
             In(x, t) == \E i \in 1..Len(t) : t[i] = x
             sect == SelectSeq(t1, LAMBDA x : In(x, t2))
             d12 == SelectSeq(t1, LAMBDA x : ~In(x, t2))
             d21 == SelectSeq(t2, LAMBDA x : ~In(x, t1))
             sorted_sect == JoinSp(SortedTokens(sect))
             combined_1to2 == Strip(sorted_sect \o <<32>> \o JoinSp(SortedTokens(d12)))
             combined_2to1 == Strip(sorted_sect \o <<32>> \o JoinSp(SortedTokens(d21)))
             F(x, y) == IF partial THEN partial_ratio(x, y) ELSE ratio(x, y)
         IN  Max2(F(Strip(sorted_sect), combined_1to2),
                  Max2(F(Strip(sorted_sect), combined_2to1),
                       F(combined_1to2, combined_2to1)))

\* fuzz.WRatio: 0 when a processed string is empty; otherwise the rounded
\* maximum of the plain ratio and the scaled token (or partial) ratios.
\* The scales .95, .90 and .60 are kept exact by working in thousandths.
WRatio(s1, s2) ==
    LET p1 == full_process(s1)
        p2 == full_process(s2)
    IN  IF Len(p1) = 0 \/ Len(p2) = 0 THEN 0
        ELSE LET lmax == Max2(Len(p1), Len(p2))
                 lmin == Min2(Len(p1), Len(p2))
                 try_partial == ~(2 * lmax < 3 * lmin)
                 partial_scale == IF lmax > 8 * lmin THEN 60 ELSE 90
                 base == ratio(p1, p2)
             IN  IF try_partial
                 THEN RoundDiv(
                        Max2(1000 * base,
                          Max2(10 * partial_scale * partial_ratio(p1, p2),
                            Max2((95 * partial_scale * TokenSort(p1, p2, TRUE)) \div 10,
                                 (95 * partial_scale * TokenSet(p1, p2, TRUE)) \div 10))),
                        1000)
                 ELSE RoundDiv(
                        Max2(1000 * base,
                          Max2(950 * TokenSort(p1, p2, FALSE),
                               950 * TokenSet(p1, p2, FALSE))),
                        1000)

(***************************************************************************)
(* State                                                                   *)
(***************************************************************************)
VARIABLES
    pc,               \* the section of the script that runs next
    hubspot_df,       \* the deal tracker
    closer_df,        \* the closer timesheet
    enroller_df,      \* the enroller timesheet
    closers,          \* the closer payroll lines
    enrollers,        \* the enroller payroll lines
    closers_export,   \* the closer section of the report
    enrollers_export, \* the enroller section of the report
    combined_export,  \* the final report
    arg,              \* the arguments of a helper called on its own
    ret,              \* and what it returned
    wratio            \* the scores fuzz.WRatio has for the names in play

vars == <<pc, hubspot_df, closer_df, enroller_df, closers, enrollers,
          closers_export, enrollers_export, combined_export, arg, ret, wratio>>

tables == <<hubspot_df, closer_df, enroller_df, closers, enrollers,
            closers_export, enrollers_export, combined_export>>


\* The names the inputs are made of, as the script compares them:
\* "Jo Li", "Jon Li", "Jo-Li", "Jo Lu", "Li Jo", "Jo", "Xu", "-", ""
KnownNames ==
    {<<74, 111, 32, 76, 105>>, <<74, 111, 110, 32, 76, 105>>, <<74, 111, 45, 76, 105>>,
     <<74, 111, 32, 76, 117>>, <<76, 105, 32, 74, 111>>, <<74, 111>>, <<88, 117>>,
     <<45>>, << >>}

\* fuzz.WRatio is a function of the two strings alone: its values for the
\* known names are computed once, when a run starts, and looked up after
WRatioOfKnown == [p \in KnownNames \X KnownNames |-> WRatio(p[1], p[2])]

\* the default scorer of extractOne
scorer(query, choice) ==
    wratio[<<query, choice>>]

\* a faulty variant of BestOf: of the best choices the last one wins
RECURSIVE BestOfLastTie(_, _, _, _)
BestOfLastTie(query, choices, cutoff, best) ==
    IF choices = << >> THEN best
    ELSE LET sc == scorer(query, choices[1])
             nb == IF sc >= cutoff /\ (best = << >> \/ sc >= best[2])
                   THEN <<choices[1], sc>> ELSE best
         IN  BestOfLastTie(query, Tail(choices), cutoff, nb)

\* process.extractOne(query, choices, score_cutoff=cutoff): the choices that
\* score at least cutoff are kept in iteration order and max() returns the
\* first of the best ones; << >> stands for None
RECURSIVE BestOf(_, _, _, _)
BestOf(query, choices, cutoff, best) ==
    IF choices = << >> THEN best
    ELSE LET sc == scorer(query, choices[1])
             nb == IF sc >= cutoff /\ (best = << >> \/ sc > best[2])
                   THEN <<choices[1], sc>> ELSE best
         IN  BestOf(query, Tail(choices), cutoff, nb)

extractOne(query, choices, cutoff) == BestOf(query, choices, cutoff, << >>)

\* a faulty variant of fuzzy_match: a score of exactly 80 does not match
fuzzy_match_above_cutoff(name, name_list) ==
    LET match == extractOne(name, name_list, 81)
    IN  IF match # << >> THEN match[1] ELSE name

\* fuzzy_match(name, name_list, cutoff=80)
fuzzy_match(name, name_list) ==
    LET match == extractOne(name, name_list, 80)
    IN  IF match # << >> THEN match[1] ELSE name

(***************************************************************************)
(* Helpers of the script                                                   *)
(***************************************************************************)
\* int(field) of python: blanks around are ignored, an optional sign, then
\* digits, single underscores allowed between digits
IsIntLiteral(f) ==
    LET t == Strip(f)
        body == IF t # << >> /\ t[1] \in {43, 45} THEN Tail(t) ELSE t
    IN  /\ body # << >>
        /\ \A i \in 1..Len(body) : IsDigit(body[i]) \/ body[i] = 95
        /\ IsDigit(body[1]) /\ IsDigit(body[Len(body)])
        /\ \A i \in 1..(Len(body) - 1) : ~(body[i] = 95 /\ body[i + 1] = 95)

RECURSIVE DigitsValue(_)
DigitsValue(ds) ==
    IF ds = << >> THEN 0
    ELSE 10 * DigitsValue(SubSeq(ds, 1, Len(ds) - 1)) + (ds[Len(ds)] - 48)

IntValue(f) ==
    LET t == Strip(f)
        neg == t[1] = 45
        body == IF t[1] \in {43, 45} THEN Tail(t) ELSE t
        v == DigitsValue(SelectSeq(body, IsDigit))
    IN  IF neg THEN 0 - v ELSE v

\* a faulty variant of CeilDiv: the hours rounded down
FloorDiv(num, den) == num \div den

\* np.ceil(num / den) for den > 0
CeilDiv(num, den) == 0 - ((0 - num) \div den)

\* parse_and_round_up(duration_str): the hours of 'H:M:S' rounded up; 0 when
\* the fields are not three integers (ValueError)
parse_and_round_up(duration_str) ==
    LET fields == SplitOn(duration_str, 58)
    IN  IF Len(fields) = 3 /\ \A i \in 1..3 : IsIntLiteral(fields[i])
        THEN CeilDiv(3600 * IntValue(fields[1]) + 60 * IntValue(fields[2])
                       + IntValue(fields[3]), 3600)
        ELSE 0

\* a faulty variant of determine_hourly_rate: the tiers start above their bound
determine_hourly_rate_strict(deals) ==
    IF deals > 15 THEN 22
    ELSE IF deals > 12 THEN 20
    ELSE IF deals > 8 THEN 18
    ELSE IF deals > 4 THEN 15
    ELSE 13

\* determine_hourly_rate(deals)
determine_hourly_rate(deals) ==
    IF deals >= 15 THEN 22
    ELSE IF deals >= 12 THEN 20
    ELSE IF deals >= 8 THEN 18
    ELSE IF deals >= 4 THEN 15
    ELSE 13

\* hours_bonus(hours)
hours_bonus(hours) ==
    IF hours >= 60 THEN 100
    ELSE IF hours >= 50 THEN 75
    ELSE IF hours >= 40 THEN 50
    ELSE 0

(***************************************************************************)
(* Tables: a data frame is a sequence of records, one per row.             *)
(***************************************************************************)
\* the missing timestamp and the missing number of pandas
NaT == -1
NaN == -1

\* the clock ticks of a day: a timestamp is day * TicksPerDay + tick, day 0
\* being a Monday
TicksPerDay == 2

\* pd.to_datetime(errors='coerce'): a value that parses is a timestamp, one
\* that does not becomes NaT
to_datetime(raw) == IF raw.ok THEN raw.day * TicksPerDay + raw.tick ELSE NaT

\* .dt.date and .dt.weekday (Monday=0): missing for NaT
dt_date(d) == IF d = NaT THEN NaT ELSE d \div TicksPerDay
dt_weekday(d) == IF d = NaT THEN NaN ELSE (d \div TicksPerDay) % 7

\* the rows at the positions idx, in row order
RECURSIVE RowsAt(_, _)
RowsAt(rows, idx) ==
    IF idx = {} THEN << >>
    ELSE LET i == CHOOSE k \in idx : \A j \in idx : k <= j
         IN  <<rows[i]>> \o RowsAt(rows, idx \ {i})

Column(rows, col) == [i \in 1..Len(rows) |-> rows[i][col]]

\* faulty variants of drop_duplicates: no row dropped; keep='last'
drop_nothing(rows, col) == rows
drop_duplicates_keep_last(rows, col) ==
    RowsAt(rows, {i \in 1..Len(rows) :
                    \A j \in (i + 1)..Len(rows) : rows[j][col] # rows[i][col]})

\* df.drop_duplicates(subset=[col]) (keep='first'); missing values are
\* equal to one another, as any other value is
drop_duplicates(rows, col) ==
    RowsAt(rows, {i \in 1..Len(rows) :
                    \A j \in 1..(i - 1) : rows[j][col] # rows[i][col]})

\* series.value_counts().rename_axis('Agent').reset_index(name=...): one
\* row per distinct value, with the number of its occurrences
value_counts(values) ==
    LET keys == Unique(values)
    IN  [i \in 1..Len(keys) |->
            [Agent |-> keys[i],
             Count |-> Cardinality({j \in 1..Len(values) : values[j] = keys[i]})]]

\* a faulty variant of merge_left: how='outer', the right rows that match
\* no left row are appended, their other columns missing
merge_outer(left, right, col) ==
    LET Matched(l) == \E k \in 1..Len(right) : right[k].Agent = l.Agent
        CountOf(l) ==
            right[CHOOSE k \in 1..Len(right) : right[k].Agent = l.Agent].Count
        With(l, v) == [x \in DOMAIN l \cup {col} |-> IF x = col THEN v ELSE l[x]]
        extra == SelectSeq(right,
                   LAMBDA r : \A i \in 1..Len(left) : left[i].Agent # r.Agent)
        cols == IF left = << >> THEN {"Agent", "ManHours"} ELSE DOMAIN left[1]
    IN  [i \in 1..Len(left) |->
            With(left[i], IF Matched(left[i]) THEN CountOf(left[i]) ELSE NaN)]
        \o [i \in 1..Len(extra) |->
              [x \in cols \cup {col} |->
                  IF x = "Agent" THEN extra[i].Agent
                  ELSE IF x = col THEN extra[i].Count ELSE NaN]]

\* left.merge(right, on='Agent', how='left'), the right column named col:
\* every left row once per matching right row, and once with NaN when no
\* right row matches
RECURSIVE merge_left(_, _, _)
merge_left(left, right, col) ==
    IF left = << >> THEN << >>
    ELSE LET l == left[1]
             ms == SelectSeq(right, LAMBDA r : r.Agent = l.Agent)
             With(v) == [x \in DOMAIN l \cup {col} |-> IF x = col THEN v ELSE l[x]]
         IN  (IF ms = << >> THEN <<With(NaN)>>
              ELSE [i \in 1..Len(ms) |-> With(ms[i].Count)])
             \o merge_left(Tail(left), right, col)

\* df.fillna(0)
fillna(rows) ==
    [i \in 1..Len(rows) |->
        [x \in DOMAIN rows[i] |->
            IF x # "Agent" /\ rows[i][x] = NaN THEN 0 ELSE rows[i][x]]]

\* the orders df.sort_values(by='DATE') may produce: timestamps ascending,
\* rows without one last in their original order; the default sort is not
\* stable, so rows with equal timestamps may come in any order
SortOrders(rows) ==
    LET n == Len(rows)
    IN  {p \in [1..n -> 1..n] :
            /\ \A i, j \in 1..n : i # j => p[i] # p[j]
            /\ \A i, j \in 1..n : i < j =>
                 LET d == rows[p[i]].DATE
                     e == rows[p[j]].DATE
                 IN  IF d = NaT THEN e = NaT /\ p[i] < p[j]
                     ELSE e = NaT \/ d <= e}

\* df.sort_values(by='Agent') of rows with distinct agents
RECURSIVE SortByAgent(_)
SortByAgent(rows) ==
    IF rows = << >> THEN << >>
    ELSE LET k == CHOOSE i \in 1..Len(rows) :
                    \A j \in 1..Len(rows) : ~StrLess(rows[j].Agent, rows[i].Agent)
         IN  <<rows[k]>> \o SortByAgent(RowsAt(rows, (1..Len(rows)) \ {k}))

(***************************************************************************)
(* Inputs: the contents of the three uploaded files                        *)
(***************************************************************************)
MaxDeals == 2
MaxCloserRows == 2
MaxEnrollerRows == 2

\* all sequences over S of length at most n
SeqsUpTo(S, n) == UNION {[1..k -> S] : k \in 0..n}

\* deal rows: DATE cells that do not parse, a Friday and two times of a
\* Saturday; closers "jo li", "Jon Li", "Jo-Li"; enrollers "Jon Li", "Xu"
RawDeals ==
    {[DATE |-> [ok |-> FALSE, day |-> 0, tick |-> 0],
      CLOSER |-> <<106, 111, 32, 108, 105>>, ENROLLER |-> <<74, 111, 110, 32, 76, 105>>],
     [DATE |-> [ok |-> TRUE, day |-> 4, tick |-> 0],
      CLOSER |-> <<74, 111, 110, 32, 76, 105>>, ENROLLER |-> <<88, 117>>],
     [DATE |-> [ok |-> TRUE, day |-> 5, tick |-> 0],
      CLOSER |-> <<106, 111, 32, 108, 105>>, ENROLLER |-> <<88, 117>>],
     [DATE |-> [ok |-> TRUE, day |-> 5, tick |-> 1],
      CLOSER |-> <<74, 111, 110, 32, 76, 105>>, ENROLLER |-> <<74, 111, 110, 32, 76, 105>>],
     [DATE |-> [ok |-> TRUE, day |-> 5, tick |-> 0],
      CLOSER |-> <<74, 111, 45, 76, 105>>, ENROLLER |-> <<74, 111, 110, 32, 76, 105>>],
     [DATE |-> [ok |-> FALSE, day |-> 0, tick |-> 0],
      CLOSER |-> <<74, 111, 110, 32, 76, 105>>, ENROLLER |-> <<88, 117>>]}

\* closer timesheet rows: " Jo Li" 1:30:00, "Jon Li" 40:00:00, "Xu" 1:30
RawCloserRows ==
    {[Rep |-> <<32, 74, 111, 32, 76, 105>>, ManHours |-> <<49, 58, 51, 48, 58, 48, 48>>],
     [Rep |-> <<74, 111, 110, 32, 76, 105>>, ManHours |-> <<52, 48, 58, 48, 48, 58, 48, 48>>],
     [Rep |-> <<88, 117>>, ManHours |-> <<49, 58, 51, 48>>]}

\* enroller timesheet rows: "jo li" 40:00:00, "Jon Li" 0:00:01
RawEnrollerRows ==
    {[Rep |-> <<106, 111, 32, 108, 105>>, ManHours |-> <<52, 48, 58, 48, 48, 58, 48, 48>>],
     [Rep |-> <<74, 111, 110, 32, 76, 105>>, ManHours |-> <<48, 58, 48, 48, 58, 48, 49>>]}

(***************************************************************************)
(* The script                                                              *)
(***************************************************************************)
Init ==
    /\ wratio = WRatioOfKnown
    /\ pc = "inputs"
    /\ hubspot_df = << >>
    /\ closer_df = << >>
    /\ enroller_df = << >>
    /\ closers = << >>
    /\ enrollers = << >>
    /\ closers_export = << >>
    /\ enrollers_export = << >>
    /\ combined_export = << >>
    /\ arg = << >>
    /\ ret = << >>

\* lines 55-57: a file is missing, the script stops
MissingUpload ==
    /\ pc = "inputs"
    /\ pc' = "stopped"
    /\ UNCHANGED <<tables, arg, ret, wratio>>

\* lines 61-67: the cleaned deal tracker
CleanHubspot(raw) ==
    [i \in 1..Len(raw) |->
        [DATE |-> to_datetime(raw[i].DATE),
         CLOSER |-> NormalizeName(raw[i].CLOSER),
         ENROLLER |-> NormalizeName(raw[i].ENROLLER),
         DealDate |-> dt_date(to_datetime(raw[i].DATE))]]

\* lines 70-73 and 76-79: a cleaned timesheet
CleanTimesheet(raw) ==
    [i \in 1..Len(raw) |->
        [Rep |-> NormalizeName(raw[i].Rep),
         ManHours |-> parse_and_round_up(raw[i].ManHours)]]

\* lines 59-79: load and clean the three files
Load ==
    /\ pc = "inputs"
    /\ \E h \in SeqsUpTo(RawDeals, MaxDeals),
          c \in SeqsUpTo(RawCloserRows, MaxCloserRows),
          e \in SeqsUpTo(RawEnrollerRows, MaxEnrollerRows) :
            /\ hubspot_df' = CleanHubspot(h)
            /\ closer_df' = CleanTimesheet(c)
            /\ enroller_df' = CleanTimesheet(e)
    /\ pc' = "closers"
    /\ UNCHANGED <<closers, enrollers, closers_export, enrollers_export,
                   combined_export, arg, ret, wratio>>

\* lines 87, 88, 127, 128: the column of resolved names
Resolve(names, canonical) ==
    [i \in 1..Len(names) |-> fuzzy_match(names[i], canonical)]

\* a frame with the column Agent added (or replaced)
WithAgent(rows, agents) ==
    [i \in 1..Len(rows) |->
        [x \in DOMAIN rows[i] \cup {"Agent"} |->
            IF x = "Agent" THEN agents[i] ELSE rows[i][x]]]

\* line 94: the deals of any Saturday
SaturdayRows(rows) == SelectSeq(rows, LAMBDA r : dt_weekday(r.DATE) = 5)

\* line 99: the first row of every DealDate in the order p of sort_values
FirstPerDate(rows, p) ==
    drop_duplicates([i \in 1..Len(rows) |-> rows[p[i]]], "DealDate")

\* lines 104 and 135: one line per agent of the timesheet
TimesheetAgents(rows) ==
    drop_duplicates([i \in 1..Len(rows) |->
                        [Agent |-> rows[i].Agent, ManHours |-> rows[i].ManHours]],
                    "Agent")

\* lines 113-119: the pay components of a closer line
CloserPay(r) ==
    [Agent |-> r.Agent,
     ManHours |-> r.ManHours,
     DealCount |-> r.DealCount,
     SaturdayDeals |-> r.SaturdayDeals,
     FirstDealBonusCount |-> r.FirstDealBonusCount,
     HourlyRate |-> determine_hourly_rate(r.DealCount),
     HourlyPay |-> determine_hourly_rate(r.DealCount) * r.ManHours,
     RegularDeals |-> r.DealCount - r.SaturdayDeals,
     RegularDealsPay |-> (r.DealCount - r.SaturdayDeals) * 35,
     SaturdayDealsPay |-> r.SaturdayDeals * 50,
     HoursBonus |-> hours_bonus(r.ManHours),
     FirstDealBonus |-> r.FirstDealBonusCount * 25]

\* lines 142-148: the pay components of an enroller line
EnrollerPay(r) ==
    [Agent |-> r.Agent,
     ManHours |-> r.ManHours,
     SubmittedDeals |-> r.SubmittedDeals,
     HourlyRate |-> 18,
     HourlyPay |-> r.ManHours * 18,
     RegularDealsPay |-> r.SubmittedDeals * 5,
     SaturdayDealsPay |-> 0,
     HoursBonus |-> 0,
     FirstDealBonus |-> 0,
     DealCount |-> r.SubmittedDeals]

\* lines 85-119: closer payroll
CloserCalc ==
    /\ pc = "closers"
    /\ \E canonical_closers \in {Unique(Column(hubspot_df, "CLOSER"))} :
       \E cdf \in {WithAgent(closer_df,
                             Resolve(Column(closer_df, "Rep"), canonical_closers))} :
       \E hdf \in {WithAgent(hubspot_df,
                             Resolve(Column(hubspot_df, "CLOSER"), canonical_closers))} :
       \E deal_counts \in {value_counts(Column(hdf, "Agent"))} :
       \E saturday_deals \in {value_counts(Column(SaturdayRows(hdf), "Agent"))} :
       \E p \in SortOrders(hdf) :
       \E first_deal_bonus \in {value_counts(Column(FirstPerDate(hdf, p), "Agent"))} :
       \E merged \in {fillna(
                        merge_left(
                          merge_left(
                            merge_left(TimesheetAgents(cdf), deal_counts, "DealCount"),
                            saturday_deals, "SaturdayDeals"),
                          first_deal_bonus, "FirstDealBonusCount"))} :
         /\ closer_df' = cdf
         /\ hubspot_df' = hdf
         /\ closers' = [i \in 1..Len(merged) |-> CloserPay(merged[i])]
    /\ pc' = "enrollers"
    /\ UNCHANGED <<enroller_df, enrollers, closers_export, enrollers_export,
                   combined_export, arg, ret, wratio>>

\* the deal tracker with the column Enroller Agent added
WithEnrollerAgent(rows, agents) ==
    [i \in 1..Len(rows) |->
        [x \in DOMAIN rows[i] \cup {"EnrollerAgent"} |->
            IF x = "EnrollerAgent" THEN agents[i] ELSE rows[i][x]]]

\* lines 125-148: enroller payroll
EnrollerCalc ==
    /\ pc = "enrollers"
    /\ \E canonical_enrollers \in {Unique(Column(hubspot_df, "ENROLLER"))} :
       \E edf \in {WithAgent(enroller_df,
                             Resolve(Column(enroller_df, "Rep"), canonical_enrollers))} :
       \E hdf \in {WithEnrollerAgent(hubspot_df,
                             Resolve(Column(hubspot_df, "ENROLLER"), canonical_enrollers))} :
       \E enroller_submissions \in {value_counts(Column(hdf, "EnrollerAgent"))} :
       \E merged \in {fillna(merge_left(TimesheetAgents(edf), enroller_submissions,
                                        "SubmittedDeals"))} :
         /\ enroller_df' = edf
         /\ hubspot_df' = hdf
         /\ enrollers' = [i \in 1..Len(merged) |-> EnrollerPay(merged[i])]
    /\ pc' = "export"
    /\ UNCHANGED <<closer_df, closers, closers_export, enrollers_export,
                   combined_export, arg, ret, wratio>>

\* lines 153-168: the report columns of a payroll line
ExportRow(r) ==
    [Agent |-> r.Agent,
     DealCount |-> r.DealCount,
     ManHours |-> r.ManHours,
     HourlyRate |-> r.HourlyRate,
     HourlyPay |-> r.HourlyPay,
     RegularDealsPay |-> r.RegularDealsPay,
     SaturdayDealsPay |-> r.SaturdayDealsPay,
     HoursBonus |-> r.HoursBonus,
     FirstDealBonus |-> r.FirstDealBonus,
     ManualBonus |-> 0,
     Bonus25Count |-> 0,
     Bonus50Count |-> 0]

\* lines 153-175: the two sections sorted by agent, closers first
Export ==
    /\ pc = "export"
    /\ LET ce == SortByAgent([i \in 1..Len(closers) |-> ExportRow(closers[i])])
           ee == SortByAgent([i \in 1..Len(enrollers) |-> ExportRow(enrollers[i])])
       IN  /\ closers_export' = ce
           /\ enrollers_export' = ee
           /\ combined_export' = fillna(ce \o ee)
    /\ pc' = "done"
    /\ UNCHANGED <<hubspot_df, closer_df, enroller_df, closers, enrollers, arg, ret, wratio>>

Next == MissingUpload \/ Load \/ CloserCalc \/ EnrollerCalc \/ Export

Spec == Init /\ [][Next]_vars

(***************************************************************************)
(* The helpers on their own                                                *)
(***************************************************************************)
NoTables ==
    /\ hubspot_df = << >>
    /\ closer_df = << >>
    /\ enroller_df = << >>
    /\ closers = << >>
    /\ enrollers = << >>
    /\ closers_export = << >>
    /\ enrollers_export = << >>
    /\ combined_export = << >>

\* fuzzy_match(name, name_list) for the known names and short lists of them
MaxChoices == 3

InitFuzzy ==
    /\ wratio = WRatioOfKnown
    /\ pc = "match"
    /\ NoTables
    /\ arg \in [name : KnownNames, name_list : SeqsUpTo(KnownNames, MaxChoices)]
    /\ ret = << >>

Match ==
    /\ pc = "match"
    /\ ret' = fuzzy_match(arg.name, arg.name_list)
    /\ pc' = "matched"
    /\ UNCHANGED <<tables, arg, wratio>>

SpecFuzzy == InitFuzzy /\ [][Match]_vars

\* parse_and_round_up(duration_str) for the strings made of at most
\* MaxFields fields joined by ":".  A field comes with what int() makes of
\* it: "0", "00", "01", "1", "2", "30", "-1", " 2" are integers; "", "x",
\* "1.5" and "nan" (a missing value made a string) are not.
MaxFields == 4

DurationFields ==
    {[text |-> <<48>>, int |-> TRUE, value |-> 0],
     [text |-> <<48, 48>>, int |-> TRUE, value |-> 0],
     [text |-> <<48, 49>>, int |-> TRUE, value |-> 1],
     [text |-> <<49>>, int |-> TRUE, value |-> 1],
     [text |-> <<50>>, int |-> TRUE, value |-> 2],
     [text |-> <<51, 48>>, int |-> TRUE, value |-> 30],
     [text |-> <<45, 49>>, int |-> TRUE, value |-> -1],
     [text |-> <<32, 50>>, int |-> TRUE, value |-> 2],
     [text |-> << >>, int |-> FALSE, value |-> 0],
     [text |-> <<120>>, int |-> FALSE, value |-> 0],
     [text |-> <<49, 46, 53>>, int |-> FALSE, value |-> 0],
     [text |-> <<110, 97, 110>>, int |-> FALSE, value |-> 0]}

\* ":".join(fields)
RECURSIVE JoinColon(_)
JoinColon(fs) ==
    IF Len(fs) = 1 THEN fs[1].text
    ELSE fs[1].text \o <<58>> \o JoinColon(Tail(fs))

InitParse ==
    /\ wratio = WRatioOfKnown
    /\ pc = "parse"
    /\ NoTables
    /\ \E fs \in SeqsUpTo(DurationFields, MaxFields) :
         /\ fs # << >>
         /\ arg = [fields |-> fs, duration_str |-> JoinColon(fs)]
    /\ ret = << >>

Parse ==
    /\ pc = "parse"
    /\ ret' = parse_and_round_up(arg.duration_str)
    /\ pc' = "parsed"
    /\ UNCHANGED <<tables, arg, wratio>>

SpecParse == InitParse /\ [][Parse]_vars

\* the pay components of one merged closer line (lines 113-119)
MaxDealCount == 16
MaxSaturdayDeals == 3
MaxFirstDeals == 2
MaxHours == 61

InitPay ==
    /\ wratio = WRatioOfKnown
    /\ pc = "pay"
    /\ hubspot_df = << >>
    /\ closer_df = << >>
    /\ enroller_df = << >>
    /\ \E d \in 0..MaxDealCount, w \in 0..MaxSaturdayDeals,
          f \in 0..MaxFirstDeals, h \in 0..MaxHours :
         /\ w <= d
         /\ closers = <<[Agent |-> <<88, 117>>, ManHours |-> h, DealCount |-> d,
                         SaturdayDeals |-> w, FirstDealBonusCount |-> f]>>
    /\ enrollers = << >>
    /\ closers_export = << >>
    /\ enrollers_export = << >>
    /\ combined_export = << >>
    /\ arg = << >>
    /\ ret = << >>

ComputePay ==
    /\ pc = "pay"
    /\ closers' = [i \in 1..Len(closers) |-> CloserPay(closers[i])]
    /\ pc' = "paid"
    /\ UNCHANGED <<hubspot_df, closer_df, enroller_df, enrollers, closers_export,
                   enrollers_export, combined_export, arg, ret, wratio>>

SpecPay == InitPay /\ [][ComputePay]_vars

(***************************************************************************)
(* Properties                                                              *)
(***************************************************************************)
AgentsOf(rows) == {rows[i].Agent : i \in 1..Len(rows)}

\* the first timesheet row that resolved to the agent
FirstRowOf(rows, agent) ==
    CHOOSE i \in 1..Len(rows) :
        /\ rows[i].Agent = agent
        /\ \A j \in 1..(i - 1) : rows[j].Agent # agent

(* C1: every row of the report carries an agent that some row of that     *)
(* role's timesheet resolved to; a name that only the deal tracker has    *)
(* (no timesheet row of the role resolves to it) has no row in the role's *)
(* section, whatever its deal count.                                      *)
C1_ReportAgentsComeFromTimesheet ==
    pc = "done" =>
        /\ combined_export = closers_export \o enrollers_export
        /\ \A i \in 1..Len(closers_export) :
             closers_export[i].Agent \in AgentsOf(closer_df)
        /\ \A i \in 1..Len(enrollers_export) :
             enrollers_export[i].Agent \in AgentsOf(enroller_df)
        /\ \A j \in 1..Len(hubspot_df) :
             /\ hubspot_df[j].Agent \notin AgentsOf(closer_df)
                  => hubspot_df[j].Agent \notin AgentsOf(closers_export)
             /\ hubspot_df[j].EnrollerAgent \notin AgentsOf(enroller_df)
                  => hubspot_df[j].EnrollerAgent \notin AgentsOf(enrollers_export)

\* a finished run in which each section has rows and the tracker has a
\* closer and an enroller that no timesheet row resolves to
C1_Witness ==
    /\ pc = "done"
    /\ closers_export # << >>
    /\ enrollers_export # << >>
    /\ \E j \in 1..Len(hubspot_df) : hubspot_df[j].Agent \notin AgentsOf(closer_df)
    /\ \E j \in 1..Len(hubspot_df) :
         hubspot_df[j].EnrollerAgent \notin AgentsOf(enroller_df)

NoTwoRowsOfAnAgent(rows) ==
    \A i, j \in 1..Len(rows) : i # j => rows[i].Agent # rows[j].Agent

(* C2: within each role section of the report no two rows carry the same  *)
(* agent, also when several timesheet rows resolve to one name and after  *)
(* the merges with the deal, Saturday and first-deal counts.              *)
C2_OneRowPerAgentAndRole ==
    pc = "done" =>
        /\ NoTwoRowsOfAnAgent(closers_export)
        /\ NoTwoRowsOfAnAgent(enrollers_export)
        /\ Len(combined_export) = Len(closers_export) + Len(enrollers_export)
        /\ \A i, j \in 1..Len(combined_export) :
             (i # j /\ combined_export[i].Agent = combined_export[j].Agent)
                => (i <= Len(closers_export)) # (j <= Len(closers_export))

\* two differently spelled closer timesheet rows resolved to one agent,
\* who has deals, a Saturday deal and a first deal of a day
C2_Witness ==
    /\ pc = "done"
    /\ \E i, j \in 1..Len(closer_df) :
         /\ closer_df[i].Rep # closer_df[j].Rep
         /\ closer_df[i].Agent = closer_df[j].Agent
         /\ \E k \in 1..Len(closers) :
              /\ closers[k].Agent = closer_df[i].Agent
              /\ closers[k].DealCount > 1
              /\ closers[k].SaturdayDeals > 0
              /\ closers[k].FirstDealBonusCount > 0

(* C10: when several rows of a role's timesheet resolve to one agent, the *)
(* agent's line takes its Man Hours from the first of them in file order; *)
(* the later rows' hours are not summed and do not reach Hourly Pay or    *)
(* Hours Bonus.                                                           *)
C10_HoursOfFirstTimesheetRow ==
    pc = "done" =>
        /\ \A k \in 1..Len(closers) :
             LET h == closer_df[FirstRowOf(closer_df, closers[k].Agent)].ManHours
             IN  /\ closers[k].ManHours = h
                 /\ closers[k].HourlyPay = closers[k].HourlyRate * h
                 /\ closers[k].HoursBonus = hours_bonus(h)
        /\ \A k \in 1..Len(enrollers) :
             LET h == enroller_df[FirstRowOf(enroller_df, enrollers[k].Agent)].ManHours
             IN  /\ enrollers[k].ManHours = h
                 /\ enrollers[k].HourlyPay = 18 * h
                 /\ enrollers[k].HoursBonus = 0
        /\ \A k \in 1..Len(closers_export) :
             closers_export[k].ManHours =
                 closer_df[FirstRowOf(closer_df, closers_export[k].Agent)].ManHours
        /\ \A k \in 1..Len(enrollers_export) :
             enrollers_export[k].ManHours =
                 enroller_df[FirstRowOf(enroller_df, enrollers_export[k].Agent)].ManHours

\* two closer rows and two enroller rows of one agent each, the first with
\* fewer hours than the second
C10_Witness ==
    /\ pc = "done"
    /\ \E i, j \in 1..Len(closer_df) :
         /\ i < j
         /\ closer_df[i].Agent = closer_df[j].Agent
         /\ closer_df[i].ManHours < closer_df[j].ManHours
         /\ hours_bonus(closer_df[i].ManHours) # hours_bonus(closer_df[j].ManHours)
    /\ \E i, j \in 1..Len(enroller_df) :
         /\ i < j
         /\ enroller_df[i].Agent = enroller_df[j].Agent
         /\ enroller_df[i].ManHours < enroller_df[j].ManHours

\* the deals of an agent whose DATE parsed
ParsedDealsOf(agent) ==
    {j \in 1..Len(hubspot_df) :
        hubspot_df[j].Agent = agent /\ hubspot_df[j].DATE # NaT}

(* C3: a deal whose DATE does not parse adds neither to an agent's        *)
(* Saturday deals nor to an agent's first-deal-of-day count, so an agent  *)
(* whose only deals have unparseable dates gets Weekend Pay 0 and First   *)
(* Deal Bonus 0.                                                          *)
C3_UnparseableDateNotBucketed ==
    pc = "done" =>
        \A k \in 1..Len(closers) :
            LET parsed == ParsedDealsOf(closers[k].Agent)
            IN  /\ closers[k].SaturdayDeals <= Cardinality(parsed)
                /\ closers[k].FirstDealBonusCount
                     <= Cardinality({hubspot_df[j].DealDate : j \in parsed})
                /\ parsed = {} =>
                     /\ closers[k].SaturdayDealsPay = 0
                     /\ closers[k].FirstDealBonus = 0

\* the deals of a calendar day that carry the day's earliest timestamp
EarliestOfDay(day) ==
    {j \in 1..Len(hubspot_df) :
        /\ hubspot_df[j].DATE # NaT
        /\ hubspot_df[j].DealDate = day
        /\ \A i \in 1..Len(hubspot_df) :
             (hubspot_df[i].DATE # NaT /\ hubspot_df[i].DealDate = day)
                => hubspot_df[j].DATE <= hubspot_df[i].DATE}

DealDays == {hubspot_df[j].DealDate : j \in {i \in 1..Len(hubspot_df) :
                                                hubspot_df[i].DATE # NaT}}

(* C8: an agent's first-deal-of-day count is the number of calendar days  *)
(* on which a deal resolved to the agent is the earliest deal of all      *)
(* closers: every day with parsed deals credits one deal of the least     *)
(* timestamp, to that deal's resolved closer.  With several deals at the  *)
(* least timestamp of a day any one of them may be the credited one.      *)
C8_FirstDealCountIsDaysWon ==
    pc = "done" =>
        \A k \in 1..Len(closers) :
            LET a == closers[k].Agent
                sure == {d \in DealDays :
                            \A j \in EarliestOfDay(d) : hubspot_df[j].Agent = a}
                may == {d \in DealDays :
                           \E j \in EarliestOfDay(d) : hubspot_df[j].Agent = a}
            IN  /\ Cardinality(sure) <= closers[k].FirstDealBonusCount
                /\ closers[k].FirstDealBonusCount <= Cardinality(may)

\* the deal counted on the line of an agent of a role
DealCountOf(lines, agent) ==
    IF \E k \in 1..Len(lines) : lines[k].Agent = agent
    THEN lines[CHOOSE k \in 1..Len(lines) : lines[k].Agent = agent].DealCount
    ELSE 0

(* C4: whenever a timesheet name and a differently spelled deal-tracker   *)
(* name of the same role score at least 80, they are one identity: the    *)
(* deals recorded under that tracker spelling resolve to the agent of the *)
(* timesheet row and are all counted on its line.                         *)
C4_SimilarNamesReconcile ==
    pc = "done" =>
        /\ \A i \in 1..Len(closer_df), j \in 1..Len(hubspot_df) :
             (/\ closer_df[i].Rep # hubspot_df[j].CLOSER
              /\ WRatio(closer_df[i].Rep, hubspot_df[j].CLOSER) >= 80)
                => /\ hubspot_df[j].Agent = closer_df[i].Agent
                   /\ DealCountOf(closers, closer_df[i].Agent)
                        >= Cardinality({m \in 1..Len(hubspot_df) :
                                           hubspot_df[m].CLOSER = hubspot_df[j].CLOSER})
        /\ \A i \in 1..Len(enroller_df), j \in 1..Len(hubspot_df) :
             (/\ enroller_df[i].Rep # hubspot_df[j].ENROLLER
              /\ WRatio(enroller_df[i].Rep, hubspot_df[j].ENROLLER) >= 80)
                => /\ hubspot_df[j].EnrollerAgent = enroller_df[i].Agent
                   /\ DealCountOf(enrollers, enroller_df[i].Agent)
                        >= Cardinality({m \in 1..Len(hubspot_df) :
                                           hubspot_df[m].ENROLLER = hubspot_df[j].ENROLLER})

\* the closer's hourly rate as steps over the base rate
RateByTier(D) ==
    13 + (IF D >= 4 THEN 2 ELSE 0) + (IF D >= 8 THEN 3 ELSE 0)
       + (IF D >= 12 THEN 2 ELSE 0) + (IF D >= 15 THEN 2 ELSE 0)

BonusByHours(H) ==
    (IF H >= 40 THEN 50 ELSE 0) + (IF H >= 50 THEN 25 ELSE 0)
       + (IF H >= 60 THEN 25 ELSE 0)

(* C5: on a closer line with Deal Count D, Saturday deals W, first-deal    *)
(* count F and hours H: Hourly Rate is 22 from 15 deals, 20 from 12, 18    *)
(* from 8, 15 from 4, else 13; Hourly Pay = rate * H; Regular Deals Pay =  *)
(* (D - W) * 35; Weekend Pay = W * 50; Hours Bonus is 100 from 60 hours,   *)
(* 75 from 50, 50 from 40, else 0; First Deal Bonus = F * 25.              *)
C5_CloserPayComponents ==
    pc = "paid" =>
        \A k \in 1..Len(closers) :
            LET r == closers[k]
                D == r.DealCount
                W == r.SaturdayDeals
                F == r.FirstDealBonusCount
                H == r.ManHours
            IN  /\ r.HourlyRate = RateByTier(D)
                /\ r.HourlyRate \in {13, 15, 18, 20, 22}
                /\ D = 15 => r.HourlyRate = 22
                /\ D = 14 => r.HourlyRate = 20
                /\ D = 0 => r.HourlyRate = 13
                /\ r.HourlyPay = RateByTier(D) * H
                /\ r.RegularDealsPay = (D - W) * 35
                /\ r.SaturdayDealsPay = W * 50
                /\ r.HoursBonus = BonusByHours(H)
                /\ r.FirstDealBonus = F * 25
                /\ (D = 16 /\ W = 3 /\ F = 2 /\ H = 45) =>
                     /\ r.HourlyPay = 990
                     /\ r.RegularDealsPay = 455
                     /\ r.SaturdayDealsPay = 150
                     /\ r.HoursBonus = 50
                     /\ r.FirstDealBonus = 50

\* the line of 16 deals, 3 of them on Saturdays, 2 first deals and 45 hours
C5_Witness ==
    /\ pc = "paid"
    /\ \E k \in 1..Len(closers) :
         /\ closers[k].DealCount = 16
         /\ closers[k].SaturdayDeals = 3
         /\ closers[k].FirstDealBonusCount = 2
         /\ closers[k].ManHours = 45
         /\ closers[k].HourlyPay = 990
         /\ closers[k].RegularDealsPay = 455

(* C6: fuzzy_match(q, L) gives, when some candidate of L scores at least  *)
(* 80 against q, a candidate of the highest score, the first of them in   *)
(* the order of L; when the best score is below 80 or L is empty it gives *)
(* q itself.                                                              *)
C6_ThresholdAndFirstBest ==
    pc = "matched" =>
        LET q == arg.name
            L == arg.name_list
            score == [i \in 1..Len(L) |-> WRatio(q, L[i])]
            passing == {i \in 1..Len(L) : score[i] >= 80}
        IN  IF passing = {} THEN ret = q
            ELSE \E i \in passing :
                    /\ \A j \in 1..Len(L) : score[j] <= score[i]
                    /\ \A j \in 1..(i - 1) : score[j] < score[i]
                    /\ ret = L[i]

\* "Jon Li" against <<"Xu", "Jo Li", "Jo-Li">>: the two last tie at the
\* highest score and the earlier one is the result
C6_Witness ==
    /\ pc = "matched"
    /\ arg.name = <<74, 111, 110, 32, 76, 105>>
    /\ arg.name_list = <<<<88, 117>>, <<74, 111, 32, 76, 105>>, <<74, 111, 45, 76, 105>>>>
    /\ ret = <<74, 111, 32, 76, 105>>

\* has some candidate of the list this very spelling?
Listed(n, L) == \E i \in 1..Len(L) : L[i] = n

(* C7 as stated: matching a name n against any list that contains n      *)
(* returns n itself.                                                      *)
C7_ExactMatchReturnsItself ==
    (pc = "matched" /\ Listed(arg.name, arg.name_list)) => ret = arg.name

(* C7, amended: matching a name n against a list L that contains n        *)
(* returns the first candidate of L that scores 100 against n: n itself   *)
(* unless an earlier candidate differs from n only in letter case or in   *)
(* characters that are neither letters nor digits; a name without any     *)
(* letter or digit scores 0 against everything and comes back unchanged.  *)
C7_ExactMatchReturnsFirstPerfect ==
    (pc = "matched" /\ Listed(arg.name, arg.name_list)) =>
        LET q == arg.name
            L == arg.name_list
        IN  IF full_process(q) = << >> THEN ret = q
            ELSE LET perfect == {i \in 1..Len(L) : WRatio(q, L[i]) = 100}
                     first == CHOOSE i \in perfect : \A j \in perfect : i <= j
                 IN  /\ perfect # {}
                     /\ ret = L[first]
                     /\ full_process(ret) = full_process(q)
                     /\ (\A j \in 1..Len(L) :
                            full_process(L[j]) = full_process(q) => L[j] = q)
                          => ret = q

\* "Jo Li" matched against <<"Jo-Li", "Jo Li">> comes back as "Jo-Li"
C7_Witness ==
    /\ pc = "matched"
    /\ arg.name = <<74, 111, 32, 76, 105>>
    /\ arg.name_list = <<<<74, 111, 45, 76, 105>>, <<74, 111, 32, 76, 105>>>>
    /\ ret = <<74, 111, 45, 76, 105>>

(* C9: for a duration string of three integer fields H:M:S                *)
(* parse_and_round_up gives ceil(H + M/60 + S/3600), the least whole      *)
(* number of hours that covers the duration ("1:30:00" gives 2, "0:00:01" *)
(* gives 1, "2:00:00" gives 2); for a string with a non-integer field, a  *)
(* field count other than three or a missing value it gives 0.            *)
C9_ParseAndRoundUp ==
    pc = "parsed" =>
        LET fs == arg.fields
            wellformed == Len(fs) = 3 /\ \A i \in 1..3 : fs[i].int
            seconds == 3600 * fs[1].value + 60 * fs[2].value + fs[3].value
        IN  /\ wellformed =>
                 /\ 3600 * ret >= seconds
                 /\ 3600 * (ret - 1) < seconds
            /\ ~wellformed => ret = 0
            /\ arg.duration_str = <<49, 58, 51, 48, 58, 48, 48>> => ret = 2
            /\ arg.duration_str = <<48, 58, 48, 48, 58, 48, 49>> => ret = 1
            /\ arg.duration_str = <<50, 58, 48, 48, 58, 48, 48>> => ret = 2

\* "1:30:00" parsed to 2 hours
C9_Witness ==
    /\ pc = "parsed"
    /\ arg.duration_str = <<49, 58, 51, 48, 58, 48, 48>>
    /\ Len(arg.fields) = 3
    /\ ret = 2

====
